---- MODULE Spec2Model ----
(***************************************************************************)
(* csvtosqlite: schema inference, SQL synthesis and the chunked ingestion  *)
(* loop of src/src/main.rs.  Text is modelled as a sequence of one-        *)
(* character strings, so that every push, remove and replace of the source *)
(* acts on characters as it does in the program.                           *)
(***************************************************************************)
EXTENDS Integers, Sequences, FiniteSets, TLC

VARIABLES
  args,             \* parsed command line: batch_size, dry_run, no_auto_detect_types
  csv_header,       \* the CSV file's header record (a sequence of field texts)
  csv_records,      \* the CSV file's data records, as they stand in the file
  pos,              \* how many data records the reader has consumed
  pc,               \* where main() stands
  first_row,        \* the sample row (main.rs:183)
  chain_head,       \* what is left of vec![first_row] in the chained iterator (main.rs:245)
  headers,          \* Vec<CsvHeader> (main.rs:188)
  create_sql,       \* create_table_sql (main.rs:205)
  sql_buffer,       \* the reusable statement buffer (main.rs:243)
  rows,             \* the batch collected by the running iteration (main.rs:250)
  added,            \* insert_row_sql_batch's return value (main.rs:252)
  inserted,         \* main.rs:238
  inserted_bytes,   \* main.rs:239
  tnx,              \* the transaction: "none", "open", "committed", "rolled_back"
  tnx_rows,         \* rows inserted inside the open transaction
  db_rows,          \* rows durable in the destination table
  sink_log,         \* every request made to the execution sink, in order
  dump_files,       \* contents of the dump files this run created
  panic_msg         \* what the process reported when it panicked ("none": nothing)

vars == <<args, csv_header, csv_records, pos, pc, first_row, chain_head, headers, create_sql,
          sql_buffer, rows, added, inserted, inserted_bytes, tnx, tnx_rows,
          db_rows, sink_log, dump_files, panic_msg>>

-----------------------------------------------------------------------------
(* Text helpers: what String::push_str, remove, replace and to_lowercase do. *)

RECURSIVE Flatten(_)
Flatten(ss) == IF ss = <<>> THEN <<>> ELSE Head(ss) \o Flatten(Tail(ss))

\* s.remove(s.len() - k): drops exactly one character, the k-th from the end.
\* (t ranges over the one value of s, so that s is evaluated once.)
RemoveFromEnd(s, k) ==
  CHOOSE r \in {SubSeq(t, 1, Len(t) - k) \o SubSeq(t, Len(t) - k + 2, Len(t)) : t \in {s}} :
    TRUE

\* str::replace(from, to) for a one-character pattern.
StrReplace(s, from, to) ==
  Flatten([i \in 1..Len(s) |-> IF s[i] = from THEN to ELSE <<s[i]>>])

UpperChars == <<"A","B","C","D","E","F","G","H","I","J","K","L","M",
                "N","O","P","Q","R","S","T","U","V","W","X","Y","Z">>
LowerChars == <<"a","b","c","d","e","f","g","h","i","j","k","l","m",
                "n","o","p","q","r","s","t","u","v","w","x","y","z">>
DigitChars == <<"0","1","2","3","4","5","6","7","8","9">>

IsUpper(c) == \E i \in 1..Len(UpperChars) : UpperChars[i] = c
IsLower(c) == \E i \in 1..Len(LowerChars) : LowerChars[i] = c
IsDigit(c) == \E i \in 1..Len(DigitChars) : DigitChars[i] = c
DigitVal(c) == (CHOOSE i \in 1..Len(DigitChars) : DigitChars[i] = c) - 1

\* char::to_ascii_lowercase; on ASCII text String::to_lowercase is the same map.
LowerChar(c) ==
  IF IsUpper(c)
    THEN LowerChars[CHOOSE i \in 1..Len(UpperChars) : UpperChars[i] = c]
    ELSE c
ToLowercase(s) == [i \in 1..Len(s) |-> LowerChar(s[i])]

AllDigits(s) == \A i \in 1..Len(s) : IsDigit(s[i])

RECURSIVE NumVal(_)
NumVal(s) == IF s = <<>> THEN 0 ELSE NumVal(SubSeq(s, 1, Len(s) - 1)) * 10 + DigitVal(s[Len(s)])

-----------------------------------------------------------------------------
(* main.rs:10-127 *)
RESERVED ==
  {
    <<"a","d","d">>, <<"a","l","l">>, <<"a","l","t","e","r">>, <<"a","n","d">>, <<"a","s">>,
    <<"a","s","c">>, <<"a","u","t","o","i","n","c","r","e","m","e","n","t">>,
    <<"b","e","t","w","e","e","n">>, <<"b","y">>, <<"c","a","s","c","a","d","e">>,
    <<"c","a","s","e">>, <<"c","a","s","t">>, <<"c","h","e","c","k">>,
    <<"c","o","l","l","a","t","e">>, <<"c","o","l","u","m","n">>, <<"c","o","m","m","i","t">>,
    <<"c","o","n","f","l","i","c","t">>, <<"c","o","n","s","t","r","a","i","n","t">>,
    <<"c","r","e","a","t","e">>, <<"c","r","o","s","s">>,
    <<"c","u","r","r","e","n","t","_","d","a","t","e">>,
    <<"c","u","r","r","e","n","t","_","t","i","m","e">>,
    <<"c","u","r","r","e","n","t","_","t","i","m","e","s","t","a","m","p">>,
    <<"d","a","t","a","b","a","s","e">>, <<"d","e","f","a","u","l","t">>,
    <<"d","e","f","e","r","r","a","b","l","e">>, <<"d","e","f","e","r","r","e","d">>,
    <<"d","e","l","e","t","e">>, <<"d","e","s","c">>, <<"d","i","s","t","i","n","c","t">>,
    <<"d","r","o","p">>, <<"e","a","c","h">>, <<"e","l","s","e">>, <<"e","n","d">>,
    <<"e","s","c","a","p","e">>, <<"e","x","c","e","p","t">>,
    <<"e","x","c","l","u","s","i","v","e">>, <<"e","x","i","s","t","s">>,
    <<"e","x","p","l","a","i","n">>, <<"f","a","i","l">>, <<"f","o","r">>,
    <<"f","o","r","e","i","g","n">>, <<"f","r","o","m">>, <<"f","u","l","l">>,
    <<"g","l","o","b">>, <<"g","r","o","u","p">>, <<"h","a","v","i","n","g">>, <<"i","f">>,
    <<"i","g","n","o","r","e">>, <<"i","m","m","e","d","i","a","t","e">>, <<"i","n">>,
    <<"i","n","d","e","x">>, <<"i","n","d","e","x","e","d">>,
    <<"i","n","i","t","i","a","l","l","y">>, <<"i","n","n","e","r">>,
    <<"i","n","s","e","r","t">>, <<"i","n","s","t","e","a","d">>,
    <<"i","n","t","e","r","s","e","c","t">>, <<"i","n","t","o">>, <<"i","s">>,
    <<"i","s","n","u","l","l">>, <<"j","o","i","n">>, <<"k","e","y">>, <<"l","e","f","t">>,
    <<"l","i","k","e">>, <<"l","i","m","i","t">>, <<"m","a","t","c","h">>,
    <<"n","a","t","u","r","a","l">>, <<"n","o">>, <<"n","o","t">>,
    <<"n","o","t","n","u","l","l">>, <<"n","u","l","l">>, <<"o","f">>,
    <<"o","f","f","s","e","t">>, <<"o","n">>, <<"o","r">>, <<"o","r","d","e","r">>,
    <<"o","u","t","e","r">>, <<"p","l","a","n">>, <<"p","r","a","g","m","a">>,
    <<"p","r","i","m","a","r","y">>, <<"q","u","e","r","y">>, <<"r","a","i","s","e">>,
    <<"r","e","c","u","r","s","i","v","e">>, <<"r","e","f","e","r","e","n","c","e","s">>,
    <<"r","e","g","e","x","p">>, <<"r","e","i","n","d","e","x">>,
    <<"r","e","l","e","a","s","e">>, <<"r","e","n","a","m","e">>,
    <<"r","e","p","l","a","c","e">>, <<"r","e","s","t","r","i","c","t">>,
    <<"r","i","g","h","t">>, <<"r","o","l","l","b","a","c","k">>, <<"r","o","w">>,
    <<"s","a","v","e","p","o","i","n","t">>, <<"s","e","l","e","c","t">>, <<"s","e","t">>,
    <<"t","a","b","l","e">>, <<"t","e","m","p">>, <<"t","e","m","p","o","r","a","r","y">>,
    <<"t","h","e","n">>, <<"t","o">>, <<"t","r","a","n","s","a","c","t","i","o","n">>,
    <<"t","r","i","g","g","e","r">>, <<"u","n","i","o","n">>, <<"u","n","i","q","u","e">>,
    <<"u","p","d","a","t","e">>, <<"u","s","i","n","g">>, <<"v","a","c","u","u","m">>,
    <<"v","a","l","u","e","s">>, <<"v","i","e","w">>, <<"v","i","r","t","u","a","l">>,
    <<"w","h","e","n">>, <<"w","h","e","r","e">>, <<"w","i","t","h">>,
    <<"w","i","t","h","o","u","t">>
  }

-----------------------------------------------------------------------------
(* SqlType, main.rs:390-398 *)
SqlType == {"String", "Integer", "Boolean", "Float", "IsoDateTime", "NaiveDate"}

\* CsvHeader::new, main.rs:401-422: the character map, to_lowercase, and the
\* trailing underscore for a reserved word.
MapChar(x) ==
  IF IsLower(x) \/ IsUpper(x) \/ IsDigit(x) THEN x
  ELSE IF x = "%" THEN "p"
  ELSE "_"

Normalise(title) ==
  LET normalised == ToLowercase([i \in 1..Len(title) |-> MapChar(title[i])])
  IN  IF normalised \in RESERVED THEN Append(normalised, "_") ELSE normalised

CsvHeaderNew(title, ty) ==
  [title |-> title, normalised |-> Normalise(title), ty |-> ty]

\* CsvHeader::with_type, main.rs:381-387
WithType(h, ty) == [title |-> h.title, normalised |-> h.normalised, ty |-> ty]

\* CsvHeader::ty_str, main.rs:361-370
TyStr(h) ==
  CASE h.ty = "String"      -> <<"T","E","X","T">>
    [] h.ty = "Integer"     -> <<"I","N","T","E","G","E","R">>
    [] h.ty = "Float"       -> <<"R","E","A","L">>
    [] h.ty = "IsoDateTime" -> <<"T","I","M","E","S","T","A","M","P">>
    [] h.ty = "NaiveDate"   -> <<"D","A","T","E">>
    [] h.ty = "Boolean"     -> <<"B","O","O","L","E","A","N">>

\* CsvHeader::need_quotes, main.rs:372-379
NeedQuotes(h) == h.ty \in {"String", "IsoDateTime", "NaiveDate"}

-----------------------------------------------------------------------------
(* The parsers determine_sql_type calls (main.rs:425-439), each as a        *)
(* recogniser of the text it accepts.                                       *)

I64MaxDigits == <<"9","2","2","3","3","7","2","0","3","6","8","5","4","7","7","5","8","0","7">>
I64MinDigits == <<"9","2","2","3","3","7","2","0","3","6","8","5","4","7","7","5","8","0","8">>

RECURSIVE StripZeros(_)
StripZeros(s) == IF s # <<>> /\ Head(s) = "0" THEN StripZeros(Tail(s)) ELSE s

\* a <= b for two digit strings of the same length
RECURSIVE DigitsLE(_, _)
DigitsLE(a, b) ==
  IF a = <<>> THEN TRUE
  ELSE IF DigitVal(Head(a)) # DigitVal(Head(b)) THEN DigitVal(Head(a)) < DigitVal(Head(b))
  ELSE DigitsLE(Tail(a), Tail(b))

HasSign(s) == Len(s) > 0 /\ s[1] \in {"+", "-"}
Unsigned(s) == IF HasSign(s) THEN Tail(s) ELSE s

\* val.parse::<i64>().is_ok(), main.rs:426: an optional sign, then one or more
\* digits whose value fits 64 bits.
ParsesI64(val) ==
  LET digits == Unsigned(val)
      sig    == StripZeros(digits)
      limit  == IF HasSign(val) /\ val[1] = "-" THEN I64MinDigits ELSE I64MaxDigits
  IN  /\ Len(digits) > 0
      /\ AllDigits(digits)
      /\ \/ Len(sig) < Len(limit)
         \/ Len(sig) = Len(limit) /\ DigitsLE(sig, limit)

\* val.parse::<f64>().is_ok(), main.rs:428: Sign? ('inf' | 'infinity' | 'nan' |
\* Number), Number ::= (Digit+ | Digit+ '.' Digit* | Digit* '.' Digit+) Exp?,
\* Exp ::= 'e' Sign? Digit+, letters in either case; no range error.
ParsesF64(val) ==
  LET low   == ToLowercase(Unsigned(val))
      es    == {i \in 1..Len(low) : low[i] = "e"}
      epos  == IF es = {} THEN 0 ELSE CHOOSE i \in es : \A j \in es : i <= j
      mant  == IF epos = 0 THEN low ELSE SubSeq(low, 1, epos - 1)
      exp   == Unsigned(SubSeq(low, epos + 1, Len(low)))
      dots  == Cardinality({i \in 1..Len(mant) : mant[i] = "."})
  IN  \/ low \in {<<"i","n","f">>, <<"i","n","f","i","n","i","t","y">>, <<"n","a","n">>}
      \/ /\ \A i \in 1..Len(mant) : IsDigit(mant[i]) \/ mant[i] = "."
         /\ dots <= 1
         /\ Len(mant) - dots >= 1
         /\ epos = 0 \/ (Len(exp) > 0 /\ AllDigits(exp))

IsLeapYear(y) == (y % 4 = 0 /\ y % 100 # 0) \/ y % 400 = 0
DaysInMonth(y, m) ==
  IF m = 2 THEN (IF IsLeapYear(y) THEN 29 ELSE 28)
  ELSE IF m \in {4, 6, 9, 11} THEN 30 ELSE 31
ValidDate(y, m, d) == m \in 1..12 /\ d \in 1..DaysInMonth(y, m)

\* chrono::DateTime::parse_from_rfc3339(val).is_ok(), main.rs:430:
\* YYYY-MM-DD 'T' HH:MM:SS ['.' Digit+] ('Z' | Sign HH ':' MM)
ParsesRfc3339(val) ==
  LET n        == Len(val)
      Two(i)   == SubSeq(val, i, i + 1)
      rest     == SubSeq(val, 20, n)
      fracEnd  == IF rest[1] # "." THEN 0
                  ELSE CHOOSE k \in 1..Len(rest) :
                         /\ \A j \in 2..k : IsDigit(rest[j])
                         /\ k = Len(rest) \/ ~IsDigit(rest[k + 1])
      offset   == SubSeq(rest, fracEnd + 1, Len(rest))
  IN  /\ n >= 20
      /\ AllDigits(SubSeq(val, 1, 4)) /\ val[5] = "-"
      /\ AllDigits(Two(6)) /\ val[8] = "-"
      /\ AllDigits(Two(9)) /\ val[11] \in {"T", "t"}
      /\ AllDigits(Two(12)) /\ val[14] = ":"
      /\ AllDigits(Two(15)) /\ val[17] = ":"
      /\ AllDigits(Two(18))
      /\ ValidDate(NumVal(SubSeq(val, 1, 4)), NumVal(Two(6)), NumVal(Two(9)))
      /\ NumVal(Two(12)) <= 23 /\ NumVal(Two(15)) <= 59 /\ NumVal(Two(18)) <= 60
      /\ fracEnd # 1
      /\ \/ offset \in {<<"Z">>, <<"z">>}
         \/ /\ Len(offset) = 6 /\ HasSign(offset) /\ offset[4] = ":"
            /\ AllDigits(SubSeq(offset, 2, 3)) /\ AllDigits(SubSeq(offset, 5, 6))
            /\ NumVal(SubSeq(offset, 2, 3)) <= 23 /\ NumVal(SubSeq(offset, 5, 6)) <= 59

\* chrono::NaiveDate::parse_from_str(val, "%Y-%m-%d").is_ok(), main.rs:432:
\* a year of 1 to 4 digits (more only behind a sign), a month and a day of 1 or
\* 2 digits, joined by '-', naming a day of the calendar, and nothing after.
ParsesNaiveDate(val) ==
  LET body   == Unsigned(val)
      dashes == {i \in 1..Len(body) : body[i] = "-"}
      d1     == CHOOSE i \in dashes : \A j \in dashes : i <= j
      d2     == CHOOSE i \in dashes : \A j \in dashes : j <= i
      y      == SubSeq(body, 1, d1 - 1)
      m      == SubSeq(body, d1 + 1, d2 - 1)
      d      == SubSeq(body, d2 + 1, Len(body))
  IN  /\ Cardinality(dashes) = 2
      /\ AllDigits(y) /\ AllDigits(m) /\ AllDigits(d)
      /\ Len(y) >= 1 /\ Len(y) <= (IF HasSign(val) THEN 6 ELSE 4)
      /\ Len(m) \in 1..2 /\ Len(d) \in 1..2
      /\ NumVal(y) <= 262143
      /\ ValidDate(NumVal(y), NumVal(m), NumVal(d))

\* val.eq_ignore_ascii_case("true") || val.eq_ignore_ascii_case("false"), main.rs:434
ParsesBool(val) ==
  ToLowercase(val) \in {<<"t","r","u","e">>, <<"f","a","l","s","e">>}

\* The same chain with the first two tests in the other order.
DetermineSqlTypeFloatFirst(val) ==
  IF ParsesF64(val) THEN "Float"
  ELSE IF ParsesI64(val) THEN "Integer"
  ELSE IF ParsesRfc3339(val) THEN "IsoDateTime"
  ELSE IF ParsesNaiveDate(val) THEN "NaiveDate"
  ELSE IF ParsesBool(val) THEN "Boolean"
  ELSE "String"

\* determine_sql_type, main.rs:425-439
DetermineSqlType(val) ==
  IF ParsesI64(val) THEN "Integer"
  ELSE IF ParsesF64(val) THEN "Float"
  ELSE IF ParsesRfc3339(val) THEN "IsoDateTime"
  ELSE IF ParsesNaiveDate(val) THEN "NaiveDate"
  ELSE IF ParsesBool(val) THEN "Boolean"
  ELSE "String"

-----------------------------------------------------------------------------
(* SQL synthesis *)

\* create_table_sql, main.rs:341-351
CreateTableSql(name, items) ==
  LET head == <<"C","R","E","A","T","E"," ","T","A","B","L","E"," ","I","F"," ",
                "N","O","T"," ","E","X","I","S","T","S"," ">> \o name \o <<" ","(">>
      cols == Flatten([i \in 1..Len(items) |->
                <<"\n"," "," ">> \o items[i].normalised \o <<" ">>
                  \o TyStr(items[i]) \o <<",">>])
  IN  RemoveFromEnd(head \o cols, 1) \o <<"\n",")",";">>

\* One field of one row, main.rs:319-328
RenderValue(h, v) ==
  IF v = <<>> THEN <<"N","U","L","L",","," ">>
  ELSE IF NeedQuotes(h)
    THEN <<"'">> \o StrReplace(StrReplace(v, "\"", <<"\\","\"">>), "'", <<"'","'">>)
           \o <<"'",","," ">>
  ELSE v \o <<","," ">>

Min(a, b) == IF a <= b THEN a ELSE b

\* One pass of the row loop, main.rs:315-334; zip stops at the shorter side.
PushRow(buffer, hs, row) ==
  LET b1 == buffer \o <<"(">>
              \o Flatten([i \in 1..Min(Len(hs), Len(row)) |-> RenderValue(hs[i], row[i])])
  IN  RemoveFromEnd(b1, 2) \o <<")",","," ">>

RECURSIVE PushRows(_, _, _)
PushRows(buffer, hs, rs) ==
  IF rs = <<>> THEN buffer ELSE PushRows(PushRow(buffer, hs, Head(rs)), hs, Tail(rs))

\* A variant that keeps the comma after the last column name.
InsertRowSqlBatchKeepingComma(table, hs, rs) ==
  LET b0 == <<"I","N","S","E","R","T"," ","I","N","T","O"," ">> \o table \o <<" ","(">>
      b1 == b0 \o Flatten([i \in 1..Len(hs) |-> hs[i].normalised \o <<","," ">>])
      b2 == b1 \o <<")"," ","V","A","L","U","E","S"," ">>
      b3 == PushRows(b2, hs, rs)
  IN  [buffer |-> RemoveFromEnd(b3, 2), count |-> Len(rs)]

\* insert_row_sql_batch, main.rs:296-339: the buffer it leaves and the count
\* it returns.
InsertRowSqlBatch(table, hs, rs) ==
  LET b0 == <<"I","N","S","E","R","T"," ","I","N","T","O"," ">> \o table \o <<" ","(">>
      b1 == b0 \o Flatten([i \in 1..Len(hs) |-> hs[i].normalised \o <<","," ">>])
      b2 == RemoveFromEnd(b1, 2) \o <<")"," ","V","A","L","U","E","S"," ">>
      b3 == PushRows(b2, hs, rs)
  IN  [buffer |-> RemoveFromEnd(b3, 2), count |-> Len(rs)]

-----------------------------------------------------------------------------
(* The row source *)

\* A reader that accepts records of any length (ReaderBuilder::flexible(true)).
ReadRecordFlexible(rec, hdr) == [ok |-> TRUE, fields |-> rec]

\* One item of csv_r.records(), main.rs:172 and 183-187, 241: the reader is built
\* by csv::Reader::from_reader, whose records must all have as many fields as
\* the first record read (the header record, main.rs:175); any other record is
\* an Err item.
ReadRecord(rec, hdr) == [ok |-> Len(rec) = Len(hdr), fields |-> rec]

\* One chunk of vec![first_row].into_iter().chain(remaining).chunks(batch_size),
\* main.rs:241 and 245-250: rows are taken one by one, first from the vec, then
\* from the reader, whose Err items flat_map(|r| r.ok()) drops, until `want`
\* rows are in `acc` or nothing is left.
RECURSIVE CollectInto(_, _, _, _, _, _)
CollectInto(acc, chain, recs, hdr, p, want) ==
  IF Len(acc) = want THEN [rows |-> acc, chain |-> chain, pos |-> p]
  ELSE IF chain # <<>>
    THEN CollectInto(Append(acc, Head(chain)), Tail(chain), recs, hdr, p, want)
  ELSE IF p >= Len(recs) THEN [rows |-> acc, chain |-> chain, pos |-> p]
  ELSE IF ReadRecord(recs[p + 1], hdr).ok
    THEN CollectInto(Append(acc, ReadRecord(recs[p + 1], hdr).fields), chain, recs, hdr,
                     p + 1, want)
  ELSE CollectInto(acc, chain, recs, hdr, p + 1, want)

\* A chunk that takes one row more than the batch size.
CollectOneMore(chain, recs, hdr, p, want) == CollectInto(<<>>, chain, recs, hdr, p, want + 1)

Collect(chain, recs, hdr, p, want) == CollectInto(<<>>, chain, recs, hdr, p, want)

\* main.rs:188-196: zip the sample row with the header texts, one descriptor per
\* pair, every type forced to String under --no-auto-detect-types.
MakeHeaders(hdr, row, no_auto) ==
  [i \in 1..Min(Len(row), Len(hdr)) |->
     LET h == CsvHeaderNew(hdr[i], DetermineSqlType(row[i]))
     IN  IF no_auto THEN WithType(h, "String") ELSE h]

\* main.rs:167-170; the runs modelled all name the table t.
TableName == <<"t">>

-----------------------------------------------------------------------------
(* main(), main.rs:162-294, cut at its await points and its exits *)

Terminal == {"DryRunExit", "Completed", "Panicked"}

Request(op, sql, rs, ok) == [op |-> op, sql |-> sql, rows |-> rs, ok |-> ok]

\* main.rs:175-205: read the headers and the first row, build the descriptors
\* and the CREATE TABLE text.  A missing or Err first item panics at expect.
BuildSchema ==
  /\ pc = "Start"
  /\ IF csv_records = <<>> \/ ~ReadRecord(csv_records[1], csv_header).ok
       THEN /\ pc' = "Panicked"
            /\ panic_msg' = "first row"
            /\ pos' = Min(1, Len(csv_records))
            /\ UNCHANGED <<first_row, headers, create_sql>>
       ELSE /\ first_row' = ReadRecord(csv_records[1], csv_header).fields
            /\ headers' = MakeHeaders(csv_header, first_row', args.no_auto_detect_types)
            /\ create_sql' = CreateTableSql(TableName, headers')
            /\ pos' = 1
            /\ pc' = "SchemaBuilt"
            /\ UNCHANGED panic_msg
  /\ UNCHANGED <<args, csv_header, csv_records, chain_head, sql_buffer, rows, added,
                 inserted, inserted_bytes, tnx, tnx_rows, db_rows, sink_log, dump_files>>

\* main.rs:207-215
DryRun ==
  /\ pc = "SchemaBuilt"
  /\ args.dry_run
  /\ pc' = "DryRunExit"
  /\ UNCHANGED <<args, csv_header, csv_records, pos, first_row, chain_head, headers,
                 create_sql, sql_buffer, rows, added, inserted, inserted_bytes, tnx,
                 tnx_rows, db_rows, sink_log, dump_files, panic_msg>>

\* main.rs:217-227: the pool connects or expect("connect to db") panics.
Connect ==
  /\ pc = "SchemaBuilt"
  /\ ~args.dry_run
  /\ \E ok \in BOOLEAN :
       /\ sink_log' = Append(sink_log, Request("connect", <<>>, <<>>, ok))
       /\ pc' = IF ok THEN "Connected" ELSE "Panicked"
       /\ panic_msg' = IF ok THEN panic_msg ELSE "connect to db"
  /\ UNCHANGED <<args, csv_header, csv_records, pos, first_row, chain_head, headers,
                 create_sql, sql_buffer, rows, added, inserted, inserted_bytes, tnx,
                 tnx_rows, db_rows, dump_files>>

\* main.rs:232-235
CreateTable ==
  /\ pc = "Connected"
  /\ \E ok \in BOOLEAN :
       /\ sink_log' = Append(sink_log, Request("create_table", create_sql, <<>>, ok))
       /\ pc' = IF ok THEN "TableCreated" ELSE "Panicked"
       /\ panic_msg' = IF ok THEN panic_msg ELSE "create table"
  /\ UNCHANGED <<args, csv_header, csv_records, pos, first_row, chain_head, headers,
                 create_sql, sql_buffer, rows, added, inserted, inserted_bytes, tnx,
                 tnx_rows, db_rows, dump_files>>

\* main.rs:238-248: the counters, pool.begin(), and the chunked iterator, whose
\* constructor asserts a batch size other than 0.
Begin ==
  /\ pc = "TableCreated"
  /\ \E ok \in BOOLEAN :
       /\ sink_log' = Append(sink_log, Request("begin", <<>>, <<>>, ok))
       /\ IF ~ok
            THEN /\ pc' = "Panicked" /\ panic_msg' = "begin transaction"
                 /\ UNCHANGED <<tnx, chain_head>>
            ELSE IF args.batch_size = 0
              THEN /\ pc' = "Panicked" /\ panic_msg' = "assertion failed: size != 0"
                   /\ tnx' = "rolled_back"
                   /\ UNCHANGED chain_head
              ELSE /\ pc' = "Loop" /\ tnx' = "open"
                   /\ chain_head' = <<first_row>>
                   /\ UNCHANGED panic_msg
  /\ inserted' = 0
  /\ inserted_bytes' = 0
  /\ UNCHANGED <<args, csv_header, csv_records, pos, first_row, headers, create_sql,
                 sql_buffer, rows, added, tnx_rows, db_rows, dump_files>>

\* main.rs:245-252: take the next chunk and synthesize its statement; when the
\* iterator is spent the loop is left (main.rs:284).
NextBatch ==
  /\ pc = "Loop"
  /\ \E c \in {Collect(chain_head, csv_records, csv_header, pos, args.batch_size)} :
     \E r \in {InsertRowSqlBatch(TableName, headers, c.rows)} :
         /\ chain_head' = c.chain
         /\ pos' = c.pos
         /\ IF c.rows = <<>>
              THEN /\ pc' = "Finalising"
                   /\ UNCHANGED <<rows, sql_buffer, added>>
              ELSE /\ rows' = c.rows
                   /\ sql_buffer' = r.buffer
                   /\ added' = r.count
                   /\ pc' = "Executing"
  /\ UNCHANGED <<args, csv_header, csv_records, first_row, headers, create_sql,
                 inserted, inserted_bytes, tnx, tnx_rows, db_rows, sink_log,
                 dump_files, panic_msg>>

\* main.rs:254-255 and 271-281: the sink acknowledges the statement; `n` is what
\* the row counter grows by.
ExecOkAdding(n) ==
  /\ pc = "Executing"
  /\ sink_log' = Append(sink_log, Request("insert", sql_buffer, rows, TRUE))
  /\ tnx_rows' = tnx_rows \o rows
  /\ inserted' = inserted + n
  /\ inserted_bytes' = inserted_bytes + Len(sql_buffer)
  /\ pc' = "Loop"
  /\ UNCHANGED <<args, csv_header, csv_records, pos, first_row, chain_head, headers,
                 create_sql, sql_buffer, rows, added, tnx, db_rows, dump_files,
                 panic_msg>>

\* A counter that counts statements instead of rows.
ExecOkCountingBatches == ExecOkAdding(1)

ExecOk == ExecOkAdding(added)

\* How many bytes of the statement a failed write may have left in the file.
MaxPartialWrite == 2

\* main.rs:256-268: the sink rejects the statement.  File::create_new may fail
\* (unwrap panics), write_all may fail part-way (expect panics); only past both
\* is the commit attempted, its result dropped, and the sink's error reported.
\* A panic drops the open transaction, which rolls it back.  `next_pc` is where
\* control goes after the handler and `text` what is written to the dump file.
ExecErrWith(next_pc, text) ==
  /\ pc = "Executing"
  /\ \E dump \in {"created", "create_failed", "write_failed"}, commit_ok \in BOOLEAN,
        n \in 0..Min(IF text = <<>> THEN 0 ELSE Len(text) - 1, MaxPartialWrite) :
       LET rejected  == Append(sink_log, Request("insert", sql_buffer, rows, FALSE))
           committed == dump = "created" /\ commit_ok
       IN  /\ sink_log' = IF dump = "created"
                            THEN Append(rejected, Request("commit", <<>>, <<>>, commit_ok))
                            ELSE rejected
           /\ dump_files' = IF dump = "created" THEN Append(dump_files, text)
                             ELSE IF dump = "write_failed"
                               THEN Append(dump_files, SubSeq(text, 1, n))
                             ELSE dump_files
           /\ tnx' = IF committed THEN "committed" ELSE "rolled_back"
           /\ db_rows' = IF committed THEN db_rows \o tnx_rows ELSE db_rows
           /\ panic_msg' = IF dump = "created" THEN "sink error"
                            ELSE IF dump = "write_failed" THEN "write query to dump file"
                            ELSE "File::create_new"
  /\ tnx_rows' = <<>>
  /\ pc' = next_pc
  /\ UNCHANGED <<args, csv_header, csv_records, pos, first_row, chain_head, headers,
                 create_sql, sql_buffer, rows, added, inserted, inserted_bytes>>

\* A handler that goes on with the next batch instead of ending the run.
ExecErrContinuing == ExecErrWith("Loop", sql_buffer)

\* A handler that writes the dump from a buffer it has already cleared.
ExecErrDumpingCleared == ExecErrWith("Panicked", SubSeq(sql_buffer, 1, 0))

ExecErr == ExecErrWith("Panicked", sql_buffer)

\* main.rs:284-293: the loop is over; commit or expect("commit transaction").
Finalise ==
  /\ pc = "Finalising"
  /\ \E ok \in BOOLEAN :
       /\ sink_log' = Append(sink_log, Request("commit", <<>>, <<>>, ok))
       /\ tnx' = IF ok THEN "committed" ELSE "rolled_back"
       /\ db_rows' = IF ok THEN db_rows \o tnx_rows ELSE db_rows
       /\ pc' = IF ok THEN "Completed" ELSE "Panicked"
       /\ panic_msg' = IF ok THEN panic_msg ELSE "commit transaction"
  /\ tnx_rows' = <<>>
  /\ UNCHANGED <<args, csv_header, csv_records, pos, first_row, chain_head, headers,
                 create_sql, sql_buffer, rows, added, inserted, inserted_bytes,
                 dump_files>>

-----------------------------------------------------------------------------
(* Inputs *)

MaxRecords == 4
MaxBatchSize == 3
MaxTitleLen == 3
MaxValLen == 5
MaxFieldLen == 1
MaxInsertRows == 2

SeqsUpTo(S, n) == UNION {[1..k -> S] : k \in 0..n}

T_id     == <<"i","d">>
T_name   == <<"n","a","m","e">>
T_active == <<"a","c","t","i","v","e">>
T_alice  == <<"A","l","i","c","e">>
T_true   == <<"t","r","u","e">>
T_false  == <<"f","a","l","s","e">>
T_obrien == <<"O","'","B","r","i","e","n"," ","\"","T","h","e"," ","B","o","s","s","\"">>
T_date   == <<"2","0","2","4","-","0","1","-","0","5">>
T_stamp  == T_date \o <<"T","1","0",":","0","0",":","0","0","Z">>

\* Data records of the runs: two that match a two-column header, one that is
\* short and one that is long.
RunRecords ==
  {<<<<"1">>, <<"A","l">>>>, <<<<"2">>, <<>>>>, <<<<"3">>>>, <<<<"4">>, <<"x">>, <<"y">>>>}

\* The state main() starts in, for a command line and a file.
Start(a, hdr, recs) ==
  /\ args = a
  /\ csv_header = hdr
  /\ csv_records = recs
  /\ pos = 0
  /\ pc = "Start"
  /\ first_row = <<>>
  /\ chain_head = <<>>
  /\ headers = <<>>
  /\ create_sql = <<>>
  /\ sql_buffer = <<>>
  /\ rows = <<>>
  /\ added = 0
  /\ inserted = 0
  /\ inserted_bytes = 0
  /\ tnx = "none"
  /\ tnx_rows = <<>>
  /\ db_rows = <<>>
  /\ sink_log = <<>>
  /\ dump_files = <<>>
  /\ panic_msg = "none"

Args(b, dry, no_auto) == [batch_size |-> b, dry_run |-> dry, no_auto_detect_types |-> no_auto]

\* Whole runs over small files.
Init ==
  \E b \in 0..MaxBatchSize, dry \in BOOLEAN, no_auto \in BOOLEAN,
     recs \in SeqsUpTo(RunRecords, MaxRecords) :
    Start(Args(b, dry, no_auto), <<T_id, T_name>>, recs)

Next ==
  \/ BuildSchema
  \/ DryRun
  \/ Connect
  \/ CreateTable
  \/ Begin
  \/ NextBatch
  \/ ExecOk
  \/ ExecErr
  \/ Finalise

Spec == Init /\ [][Next]_vars

\* main() is one sequential flow of control: a step that can be taken is taken.
FairSpec == Spec /\ WF_vars(Next)

\* The dry-run program: with --dry-run main() builds the schema and exits.
NextDryRun ==
  \/ BuildSchema
  \/ DryRun

\* Header texts: every text of up to MaxTitleLen characters over letters of
\* both cases, a digit, '%', and characters outside [A-Za-z0-9%], one of them
\* not ASCII.  "as" in any case is a reserved word.
TitleChars == {"a", "s", "A", "9", "%", " ", "_", "-", "é"}

InitNormalise ==
  \E title \in SeqsUpTo(TitleChars, MaxTitleLen) :
    Start(Args(1, TRUE, FALSE), <<T_id, title>>, <<<<<<"1">>, <<"1">>>>>>)

SpecNormalise == InitNormalise /\ [][NextDryRun]_vars

\* Sample values: every text of up to MaxValLen characters over ValChars, and
\* texts of the longer forms the parsers accept or just miss.
ValChars == {"1", "-", "+", ".", "e"}

InferSamples ==
  {
    <<"4","2">>,
    <<"4","2",".","5">>,
    <<"2","0","2","4">>,
    <<"h","e","l","l","o">>,
    <<"t","r","u","e">>,
    <<"T","R","U","E">>,
    <<"F","a","l","s","e">>,
    <<"n","a","n">>,
    <<"N","a","N">>,
    <<"i","n","f">>,
    <<"+","I","n","f","i","n","i","t","y">>,
    <<"1","e","5">>,
    <<"1",".">>,
    <<".","5">>,
    <<"9","2","2","3","3","7","2","0","3","6","8","5","4","7","7","5","8","0","7">>,
    <<"9","2","2","3","3","7","2","0","3","6","8","5","4","7","7","5","8","0","8">>,
    <<"-","9","2","2","3","3","7","2","0","3","6","8","5","4","7","7","5","8","0","8">>,
    <<"-","9","2","2","3","3","7","2","0","3","6","8","5","4","7","7","5","8","0","9">>,
    <<"0","0","0","9","2","2","3","3","7","2","0","3","6","8","5","4","7","7","5","8","0","8">>,
    <<"2","0","2","4","-","0","1","-","0","5">>,
    <<"2","0","2","4","-","1","-","5">>,
    <<"2","0","2","4","-","0","2","-","2","9">>,
    <<"2","0","2","3","-","0","2","-","2","9">>,
    <<"2","0","2","4","-","0","2","-","3","0">>,
    <<"2","0","2","4","-","1","3","-","0","1">>,
    <<"2","0","2","4","5","-","0","1","-","0","5">>,
    <<"+","2","0","2","4","5","-","0","1","-","0","5">>,
    <<"-","2","0","2","4","-","0","1","-","0","5">>,
    <<"2","0","2","4","-","0","1","-","0","5","T","1","0",":","0","0",":","0","0","Z">>,
    <<"2","0","2","4","-","0","1","-","0","5","t","1","0",":","0","0",":","0","0","z">>,
    <<"2","0","2","4","-","0","1","-","0","5","T","1","0",":","0","0",":","0","0","+","0","1",":","0","0">>,
    <<"2","0","2","4","-","0","1","-","0","5","T","1","0",":","0","0",":","0","0",".","5","Z">>,
    <<"2","0","2","4","-","0","1","-","0","5","T","1","0",":","0","0",":","0","0",".","Z">>,
    <<"2","0","2","4","-","0","1","-","0","5","T","2","4",":","0","0",":","0","0","Z">>,
    <<"2","0","2","4","-","1","3","-","0","5","T","1","0",":","0","0",":","0","0","Z">>,
    <<"2","0","2","4","-","0","1","-","0","5","T","1","0",":","0","0",":","0","0">>,
    <<"2","0","2","4","-","0","1","-","0","5","T","1","0",":","0","0",":","0","0","-","0","1","0","0">>,
    <<"t","r","u","e","e">>
  }

InitInfer ==
  \E val \in SeqsUpTo(ValChars, MaxValLen) \cup InferSamples, no_auto \in BOOLEAN :
    Start(Args(1, TRUE, no_auto), <<T_id, T_name>>, <<<<<<"1">>, val>>>>)

SpecInfer == InitInfer /\ [][NextDryRun]_vars

\* Runs that insert: everything main() does without --dry-run.
NextIngest ==
  \/ BuildSchema
  \/ Connect
  \/ CreateTable
  \/ Begin
  \/ NextBatch
  \/ ExecOk
  \/ ExecErr
  \/ Finalise

\* Field texts: every text of up to MaxFieldLen characters over a letter, the
\* two quote characters, and some longer ones.
FieldChars == {"a", "'", "\""}
FieldSamples == {T_alice, T_obrien, T_date, T_stamp, <<"1">>, T_true}

\* One-column files of up to MaxInsertRows rows, and the three-column file of
\* the id,name,active scenario.
InitInsert ==
  \/ \E recs \in SeqsUpTo(SeqsUpTo(FieldChars, MaxFieldLen) \cup FieldSamples, MaxInsertRows),
        b \in 1..MaxInsertRows, no_auto \in BOOLEAN :
       /\ recs # <<>>
       /\ Start(Args(b, FALSE, no_auto), <<T_name>>,
                [i \in 1..Len(recs) |-> <<recs[i]>>])
  \/ \E b \in 1..2 :
       Start(Args(b, FALSE, FALSE), <<T_id, T_name, T_active>>,
             << <<<<"1">>, T_alice, T_true>>, <<<<"2">>, <<>>, T_false>> >>)

SpecInsert == InitInsert /\ [][NextIngest]_vars

-----------------------------------------------------------------------------
(* What the claims speak of *)

Inserts(log) == SelectSeq(log, LAMBDA e : e.op = "insert")
Commits(log) == SelectSeq(log, LAMBDA e : e.op = "commit")
Acked(log)   == SelectSeq(log, LAMBDA e : e.op = "insert" /\ e.ok)

\* The sink has rejected an INSERT statement.
Rejected == \E i \in 1..Len(sink_log) : sink_log[i].op = "insert" /\ ~sink_log[i].ok
RejectedSql ==
  sink_log[CHOOSE i \in 1..Len(sink_log) : sink_log[i].op = "insert" /\ ~sink_log[i].ok].sql

\* The rows the source yields: the file's records that have one field per header.
OkRows == SelectSeq(csv_records, LAMBDA r : Len(r) = Len(csv_header))

\* Rows are left for a later batch.
RowsLeft ==
  \E i \in (pos + 1)..Len(csv_records) : Len(csv_records[i]) = Len(csv_header)

RECURSIVE RowsOf(_)
RowsOf(log) == IF log = <<>> THEN <<>> ELSE Head(log).rows \o RowsOf(Tail(log))

CeilDiv(n, b) == (n + b - 1) \div b

RECURSIVE Join(_, _)
Join(ss, sep) ==
  IF ss = <<>> THEN <<>>
  ELSE IF Len(ss) = 1 THEN ss[1]
  ELSE ss[1] \o sep \o Join(Tail(ss), sep)

IsPrefix(p, s) == Len(p) <= Len(s) /\ SubSeq(s, 1, Len(p)) = p

-----------------------------------------------------------------------------
\* C1: once the sink has rejected the INSERT statement of a batch, no further
\* statement is synthesized (the buffer and the batch stay as they are) and no
\* INSERT is submitted again, neither for a later batch nor the rejected one.
C1_FailureIsTerminal ==
  [][Rejected => /\ Inserts(sink_log') = Inserts(sink_log)
                 /\ sql_buffer' = sql_buffer
                 /\ rows' = rows]_vars

\* A batch was rejected while rows for later batches were still in the file.
C1_Witness == Rejected /\ pc = "Panicked" /\ RowsLeft /\ Len(Acked(sink_log)) >= 1

-----------------------------------------------------------------------------
\* C2 as stated: a finished run whose sink rejected a batch has exactly one dump
\* file, holding the rejected statement; a run never has two; a run without a
\* rejection has none.
C2_ExactlyOneDump ==
  /\ Len(dump_files) <= 1
  /\ ~Rejected => dump_files = <<>>
  /\ (Rejected /\ pc \in Terminal) => dump_files = <<RejectedSql>>

\* C2 amended: at most one dump file per run and none without a rejection; after
\* a rejection the file exists unless File::create_new failed, and it holds the
\* rejected statement exactly unless the write failed, when it holds a proper
\* prefix of it.
C2_AtMostOneDump ==
  /\ Len(dump_files) <= 1
  /\ ~Rejected => dump_files = <<>>
  /\ (Rejected /\ pc \in Terminal) =>
       /\ panic_msg \in {"sink error", "write query to dump file", "File::create_new"}
       /\ panic_msg = "sink error" => dump_files = <<RejectedSql>>
       /\ panic_msg = "write query to dump file" =>
            /\ Len(dump_files) = 1
            /\ IsPrefix(dump_files[1], RejectedSql)
            /\ dump_files[1] # RejectedSql
       /\ panic_msg = "File::create_new" => dump_files = <<>>

\* The second batch of a run was rejected and dumped whole.
C2_Witness ==
  /\ Rejected /\ pc = "Panicked" /\ panic_msg = "sink error"
  /\ Len(Acked(sink_log)) >= 1
  /\ dump_files = <<RejectedSql>>

-----------------------------------------------------------------------------
\* C3: a run that ends after the sink rejected a batch has attempted the commit,
\* whatever became of the dump file, reports the sink's error, and, the commit
\* having succeeded, leaves exactly the acknowledged batches' rows in the table.
C3_CommitAlwaysAttempted ==
  (Rejected /\ pc = "Panicked") =>
     /\ Len(Commits(sink_log)) = 1
     /\ sink_log[Len(sink_log)].op = "commit"
     /\ panic_msg = "sink error"
     /\ sink_log[Len(sink_log)].ok => db_rows = RowsOf(Acked(sink_log))

-----------------------------------------------------------------------------
\* C4: with batch size B >= 1 and N rows yielded by the source, the k-th
\* statement covers rows (k-1)*B+1 .. min(k*B, N) of the source, in order; every
\* statement but the last covers B rows; and when the loop is left there are
\* ceil(N/B) statements, which together cover every row once.
Batches ==
  [k \in 1..Len(Inserts(sink_log)) |-> Inserts(sink_log)[k].rows]
    \o (IF pc = "Executing" THEN <<rows>> ELSE <<>>)

C4_Chunking ==
  LET B == args.batch_size
      N == Len(OkRows)
  IN  B >= 1 =>
        /\ \A k \in 1..Len(Batches) :
             /\ Batches[k] = SubSeq(OkRows, (k - 1) * B + 1, Min(k * B, N))
             /\ Len(Batches[k]) >= 1
             /\ Len(Batches[k]) = B \/ (k = CeilDiv(N, B) /\ Len(Batches[k]) = N % B)
        /\ pc \in {"Finalising", "Completed"} =>
             /\ Len(Batches) = CeilDiv(N, B)
             /\ Flatten(Batches) = OkRows

\* A finished run whose last statement is short and whose file held a record
\* the source dropped.
C4_Witness ==
  /\ pc = "Completed"
  /\ Len(OkRows) > args.batch_size
  /\ Len(OkRows) % args.batch_size # 0
  /\ Len(csv_records) > Len(OkRows)
  /\ Len(Batches) = CeilDiv(Len(OkRows), args.batch_size)

-----------------------------------------------------------------------------
\* The value texts of section 4.4: NULL for an empty field, the escaped text in
\* single quotes for a quoted type, the field itself otherwise.
QuotedLiteral(v) ==
  <<"'">> \o StrReplace(StrReplace(v, "\"", <<"\\","\"">>), "'", <<"'","'">>) \o <<"'">>

ValueText(h, v) ==
  IF v = <<>> THEN <<"N","U","L","L">>
  ELSE IF h.ty \in {"String", "IsoDateTime", "NaiveDate"} THEN QuotedLiteral(v)
  ELSE v

\* An INSERT statement whose lists are joined by ", ", with `close` closing each
\* list and `end` ending the statement.
StatementText(hs, rs, close, end) ==
  <<"I","N","S","E","R","T"," ","I","N","T","O"," ">> \o TableName \o <<" ","(">>
    \o Join([i \in 1..Len(hs) |-> hs[i].normalised], <<","," ">>) \o close
    \o <<" ","V","A","L","U","E","S"," ">>
    \o Join([k \in 1..Len(rs) |->
               <<"(">> \o Join([i \in 1..Len(hs) |-> ValueText(hs[i], rs[k][i])], <<","," ">>)
                 \o close],
            <<","," ">>)
    \o end

ScenarioRows == << <<<<"1">>, T_alice, T_true>>, <<<<"2">>, <<>>, T_false>> >>

\* INSERT INTO t (id, name, active) VALUES (1, 'Alice', true), (2, NULL, false);
ScenarioClaimed ==
  <<"I","N","S","E","R","T"," ","I","N","T","O"," ","t"," ","(","i","d",","," ",
    "n","a","m","e",","," ","a","c","t","i","v","e",")"," ","V","A","L","U","E","S"," ",
    "(","1",","," ","'","A","l","i","c","e","'",","," ","t","r","u","e",")",","," ",
    "(","2",","," ","N","U","L","L",","," ","f","a","l","s","e",")",";">>

\* INSERT INTO t (id, name, active ) VALUES (1, 'Alice', true ), (2, NULL, false ) 
ScenarioBuilt ==
  <<"I","N","S","E","R","T"," ","I","N","T","O"," ","t"," ","(","i","d",","," ",
    "n","a","m","e",","," ","a","c","t","i","v","e"," ",")"," ","V","A","L","U","E","S"," ",
    "(","1",","," ","'","A","l","i","c","e","'",","," ","t","r","u","e"," ",")",","," ",
    "(","2",","," ","N","U","L","L",","," ","f","a","l","s","e"," ",")"," ">>

\* C5 as stated: the statement built for a batch is INSERT INTO <table> (<col>,
\* ...) VALUES (<v>, ...), (<v>, ...);, nothing before a closing parenthesis and
\* a semicolon at the end; the scenario's two rows give ScenarioClaimed.
C5_BitExactWithSemicolon ==
  pc = "Executing" =>
    /\ sql_buffer = StatementText(headers, rows, <<")">>, <<";">>)
    /\ rows = ScenarioRows => sql_buffer = ScenarioClaimed

\* C5 amended: the statement built for a batch is INSERT INTO <table> (<col>,
\* ... ) VALUES (<v>, ... ), (<v>, ... ) : names, values and tuples are joined
\* by ", ", one space stands before every closing parenthesis, and the statement
\* ends with one space after the last parenthesis, without a semicolon; the
\* scenario's two rows give ScenarioBuilt.
C5_BitExactAsBuilt ==
  pc = "Executing" =>
    /\ sql_buffer = StatementText(headers, rows, <<" ",")">>, <<" ">>)
    /\ rows = ScenarioRows => sql_buffer = ScenarioBuilt

\* The scenario's statement has been built.
C5_Witness ==
  /\ pc = "Executing"
  /\ csv_header = <<T_id, T_name, T_active>>
  /\ rows = ScenarioRows
  /\ sql_buffer = ScenarioBuilt

-----------------------------------------------------------------------------
\* C6: a sample row whose field count differs from the header count ends the
\* run at "first row" with no descriptor, no CREATE TABLE text, no statement and
\* nothing sent to the sink; and a descriptor list, once built, has one
\* descriptor per header.
C6_MismatchIsFatal ==
  /\ (pc # "Start" /\ csv_records # <<>> /\ Len(csv_records[1]) # Len(csv_header)) =>
       /\ pc = "Panicked" /\ panic_msg = "first row"
       /\ headers = <<>> /\ create_sql = <<>> /\ sql_buffer = <<>> /\ sink_log = <<>>
  /\ (pc # "Start" /\ panic_msg # "first row") => Len(headers) = Len(csv_header)

\* The run has ended on a sample row with fewer fields than there are headers.
C6_Witness ==
  /\ pc = "Panicked"
  /\ csv_records # <<>>
  /\ Len(csv_records[1]) < Len(csv_header)

-----------------------------------------------------------------------------
\* C7: every descriptor's normalised name is non-empty and made of characters
\* of [a-z0-9_] only.
C7_IdentifierNonEmpty ==
  \A i \in 1..Len(headers) :
    /\ headers[i].normalised # <<>>
    /\ \A j \in 1..Len(headers[i].normalised) :
         LET c == headers[i].normalised[j] IN IsLower(c) \/ IsDigit(c) \/ c = "_"

-----------------------------------------------------------------------------
\* SQL string rules: drop the outer quotes, then read each doubled single quote
\* as one.
RECURSIVE Collapse(_)
Collapse(s) ==
  IF s = <<>> THEN <<>>
  ELSE IF Len(s) >= 2 /\ s[1] = "'" /\ s[2] = "'" THEN <<"'">> \o Collapse(SubSeq(s, 3, Len(s)))
  ELSE <<s[1]>> \o Collapse(Tail(s))

Unescape(lit) == Collapse(SubSeq(lit, 2, Len(lit) - 1))

\* The literal in a statement built for one row of one column.
OnlyLiteral ==
  LET before == <<"I","N","S","E","R","T"," ","I","N","T","O"," ">> \o TableName
                  \o <<" ","(">> \o headers[1].normalised
                  \o <<" ",")"," ","V","A","L","U","E","S"," ","(">>
  IN  SubSeq(sql_buffer, Len(before) + 1, Len(sql_buffer) - 3)

\* C8: in a statement built for one non-empty value of a quoted column, the
\* literal is the value with each double quote escaped by a backslash and each
\* single quote doubled, in single quotes, and unescaping it by SQL string rules
\* gives the value back.
C8_EscapingRoundTrip ==
  (/\ pc = "Executing" /\ Len(headers) = 1 /\ Len(rows) = 1
   /\ NeedQuotes(headers[1]) /\ rows[1][1] # <<>>) =>
     /\ OnlyLiteral = QuotedLiteral(rows[1][1])
     /\ Unescape(OnlyLiteral) = rows[1][1]

-----------------------------------------------------------------------------
\* The precedence of section 4.2 and the predicate of each of its types.
Precedence == <<"Integer", "Float", "IsoDateTime", "NaiveDate", "Boolean">>

Satisfies(ty, v) ==
  CASE ty = "Integer"     -> ParsesI64(v)
    [] ty = "Float"       -> ParsesF64(v)
    [] ty = "IsoDateTime" -> ParsesRfc3339(v)
    [] ty = "NaiveDate"   -> ParsesNaiveDate(v)
    [] ty = "Boolean"     -> ParsesBool(v)

\* C9: each descriptor's type is the first type of the precedence whose
\* predicate its sample value satisfies, String when it satisfies none, and
\* String in any case under --no-auto-detect-types.
C9_FirstMatchWins ==
  \A i \in 1..Len(headers) :
    LET v   == first_row[i]
        sat == {k \in 1..Len(Precedence) : Satisfies(Precedence[k], v)}
    IN  /\ args.no_auto_detect_types => headers[i].ty = "String"
        /\ ~args.no_auto_detect_types =>
             /\ sat = {} <=> headers[i].ty = "String"
             /\ \A k \in sat : (\A j \in sat : k <= j) => headers[i].ty = Precedence[k]

\* The sample value 2024, an integer and a float by their predicates, typed Integer.
C9_Witness ==
  /\ pc = "DryRunExit" /\ ~args.no_auto_detect_types
  /\ first_row[2] = <<"2","0","2","4">>
  /\ ParsesI64(first_row[2]) /\ ParsesF64(first_row[2])
  /\ headers[2].ty = "Integer"

-----------------------------------------------------------------------------
\* C10, in every state: the transaction is begun at most once, right
\* after the CREATE TABLE statement has executed; the row counter equals the
\* number of rows of the acknowledged batches; with no batch rejected, a commit
\* is requested at most once and only when every row of the source has been
\* acknowledged; a completed run has counted every row of the source, sample row
\* included, and committed them; and a run that ends without --dry-run, with a
\* batch size of at least 1, a readable sample row and no request refused by the
\* sink, ends Completed.
C10_Safety ==
  /\ \A i \in 1..Len(sink_log) :
       sink_log[i].op = "begin" =>
         /\ i >= 2 /\ sink_log[i - 1].op = "create_table" /\ sink_log[i - 1].ok
         /\ \A j \in 1..Len(sink_log) : sink_log[j].op = "begin" => j = i
  /\ inserted = Len(RowsOf(Acked(sink_log)))
  /\ ~Rejected =>
       /\ Len(Commits(sink_log)) <= 1
       /\ \A i \in 1..Len(sink_log) :
            sink_log[i].op = "commit" =>
              /\ i = Len(sink_log)
              /\ RowsOf(Acked(sink_log)) = OkRows
  /\ pc = "Completed" =>
       /\ inserted = Len(OkRows)
       /\ Len(Commits(sink_log)) = 1
       /\ tnx = "committed"
       /\ db_rows = OkRows
       /\ ~Rejected
  /\ (/\ pc \in Terminal /\ ~args.dry_run /\ args.batch_size >= 1
      /\ csv_records # <<>> /\ Len(csv_records[1]) = Len(csv_header)
      /\ \A i \in 1..Len(sink_log) : sink_log[i].ok) => pc = "Completed"

\* C10: the safety part holds in every state, and every run ends.
C10_CompletedRun == []C10_Safety /\ <>(pc \in Terminal)

\* A run of several batches, all acknowledged, has completed.
C10_Witness ==
  /\ pc = "Completed"
  /\ Len(Acked(sink_log)) >= 2
  /\ inserted = Len(OkRows)
  /\ inserted > Len(Acked(sink_log))

====
